---- MODULE Spec2Model ----
(***************************************************************************)
(* Purchase transaction engine of sltv-backend                             *)
(* (src/app/api/v1/endpoints/services.py).                                 *)
(*                                                                         *)
(* Every HTTP request runs the handler coroutine on its own database       *)
(* session; the coroutines interleave at their await points, so one action *)
(* of the model is the code between two awaits of a handler.  The three    *)
(* handlers purchase_airtime, purchase_data and purchase_electricity share *)
(* the same step sequence; the steps are modelled once and read the        *)
(* product of the request where the handlers differ.                       *)
(*                                                                         *)
(* The /electricity/verify handler and the background tasks that deliver   *)
(* the queued emails (src/app/services/email_service.py) are modelled      *)
(* next to the purchase handlers, each with a specification of its own.    *)
(*                                                                         *)
(* Money is a Python float in the code.  The model keeps amounts as exact  *)
(* integers and draws amounts and percentages whose products are multiples *)
(* of 100, so that cost * (value / 100) is exact.                          *)
(***************************************************************************)
EXTENDS Integers, Sequences, FiniteSets, TLC

\* ------------------------------------------------------------------ bounds

\* Total number of ledger (database) operations that may raise.
MaxFaults == 1

\* ------------------------------------------------------------ environment

\* The requests of a run: each is handled once, by its own coroutine, and
\* the two may be in flight at the same time or one after the other.
Slots == {"r1", "r2"}

Users == {"alice", "bob", "carol"}

\* wallet_repo.get_by_user_id: carol has no wallet row.
WalletOf(u) ==
    CASE u = "alice" -> "w1"
      [] u = "bob"   -> "w2"
      [] OTHER       -> "none"

Wallets == {"w1", "w2"}

\* str.lower() on the characters the provider strings of the model use.
LowerChar(c) ==
    CASE c = "A" -> "a" [] c = "C" -> "c" [] c = "D" -> "d"
      [] c = "E" -> "e" [] c = "G" -> "g" [] c = "L" -> "l"
      [] c = "M" -> "m" [] c = "N" -> "n" [] c = "O" -> "o"
      [] c = "T" -> "t" [] c = "U" -> "u" [] c = "I" -> "i"
      [] c = "R" -> "r" [] c = "P" -> "p" [] c = "S" -> "s"
      [] OTHER -> c

\* Strings that the code transforms are sequences of one-character strings.
Lower(s) == [i \in 1..Len(s) |-> LowerChar(s[i])]

EEDC == <<"E","E","D","C">>
eddc == <<"e","d","d","c">>
EnuguElectric == <<"E","n","u","g","u","-","e","l","e","c","t","r","i","c">>
enugu_electric == <<"e","n","u","g","u","-","e","l","e","c","t","r","i","c">>
aedc == <<"a","e","d","c">>
MTN == <<"M","T","N">>
glo == <<"g","l","o">>

\* The purchase intents the model draws requests from
\* (AirtimeRequest, DataRequest, ElectricityRequest).
Intents == <<
    [user |-> "alice", product |-> "airtime",     provider |-> MTN,  amount |-> 50,  recipient |-> "0803", plan_id |-> <<>>],
    [user |-> "alice", product |-> "data",        provider |-> glo,  amount |-> 50,  recipient |-> "0803", plan_id |-> <<"5","0","0","M","B">>],
    [user |-> "alice", product |-> "electricity", provider |-> EEDC, amount |-> 50,  recipient |-> "m1", plan_id |-> <<>>],
    [user |-> "alice", product |-> "electricity", provider |-> aedc, amount |-> 100, recipient |-> "m1", plan_id |-> <<>>],
    [user |-> "alice", product |-> "electricity", provider |-> eddc, amount |-> 50,  recipient |-> "m1", plan_id |-> <<>>],
    [user |-> "alice", product |-> "electricity", provider |-> EnuguElectric, amount |-> 50, recipient |-> "m1", plan_id |-> <<>>],
    [user |-> "bob",   product |-> "airtime",     provider |-> glo,  amount |-> 50,  recipient |-> "0805", plan_id |-> <<>>],
    [user |-> "carol", product |-> "airtime",     provider |-> MTN,  amount |-> 50,  recipient |-> "0807", plan_id |-> <<>>]
>>

IntentIds == 1..Len(Intents)

\* Initial wallet balances: enough for one request of alice but not for
\* two, or too little for any.
InitBalances == {
    [w \in Wallets |-> 100],
    [w \in Wallets |-> IF w = "w1" THEN 10 ELSE 100]
}

\* f"airtime-{request.network.lower()}", f"data-...", f"electricity-..."
Prefix(product) ==
    CASE product = "airtime" -> <<"a","i","r","t","i","m","e","-">>
      [] product = "data"    -> <<"d","a","t","a","-">>
      [] OTHER               -> <<"e","l","e","c","t","r","i","c","i","t","y","-">>

ServiceIdentifier(product, provider) == Prefix(product) \o Lower(provider)

\* Rows of the ServicePrice table: the engine only reads them.  The table
\* has a rule for some service identifiers of the requests (airtime-mtn,
\* data-glo, electricity-eedc, electricity-aedc) and none for the others
\* (airtime-glo, electricity-eddc, electricity-enugu-electric).
MixedRules == {
    [service_identifier |-> ServiceIdentifier("airtime", MTN),      profit_type |-> "fixed",      profit_value |-> 10],
    [service_identifier |-> ServiceIdentifier("data", glo),         profit_type |-> "percentage", profit_value |-> 20],
    [service_identifier |-> ServiceIdentifier("electricity", EEDC), profit_type |-> "percentage", profit_value |-> 20],
    [service_identifier |-> ServiceIdentifier("electricity", aedc), profit_type |-> "commission", profit_value |-> 30]
}
PriceTables == {MixedRules}

\* Wall-clock times at which generate_trans_id is called: one-digit and
\* two-digit fields, the first and the last second of a year, and the
\* years 2000, 2009 and 2100 whose %y has a leading zero.
Instants == <<
    [year |-> 2026, month |-> 11, day |-> 3,  hour |-> 9,  minute |-> 5,  second |-> 7],
    [year |-> 2026, month |-> 12, day |-> 31, hour |-> 23, minute |-> 59, second |-> 59],
    [year |-> 2000, month |-> 1,  day |-> 1,  hour |-> 0,  minute |-> 0,  second |-> 0],
    [year |-> 2009, month |-> 10, day |-> 20, hour |-> 10, minute |-> 30, second |-> 40],
    [year |-> 2100, month |-> 2,  day |-> 28, hour |-> 12, minute |-> 0,  second |-> 1] >>

\* The prefixes the handlers pass to generate_trans_id (83, 148, 216, 398).
Prefixes == {"AIRTIME", "DATA", "ELEC", "REFUND"}

\* The TV requests in flight: each has a handler coroutine and, once
\* dispatched, a worker thread of the threadpool.
Callers == {"c1", "c2", "c3"}

\* The three browser-session operations of VTUAutomator.
Operations == {"get_sltv_user_details", "purchase_tv", "refresh_tv"}

\* The operations each caller may ask for: two purchases can meet, and each
\* operation can meet a purchase.
Requested(c) ==
    CASE c = "c1" -> {"purchase_tv"}
      [] c = "c2" -> {"purchase_tv", "get_sltv_user_details"}
      [] OTHER    -> {"refresh_tv"}

\* A TV request that has not arrived: no instance (self), no loop
\* iteration, no run of the login-and-act sequence, no failure met that is
\* not a lost session (fail), nothing returned.
NoCall == [pc |-> "idle", op |-> "none", self |-> 0, attempt |-> 0,
           runs |-> 0, submitted |-> 0, fail |-> "none", ret |-> "none",
           status_code |-> 0]

\* The rows of the user table that get_by_email reads: email and full_name
\* (bob's full_name is empty).
UserTable == {
    [id |-> 1, email |-> "alice@example.com", full_name |-> "Alice"],
    [id |-> 2, email |-> "bob@example.com",   full_name |-> ""] }

\* What get_by_email returns when no row has the email.
NoUser == [id |-> 0, email |-> "", full_name |-> ""]

\* The email parameter of the /forgot-password requests: two emails with a
\* user row and two without one.
Emails == {"alice@example.com", "bob@example.com", "nobody@example.com", ""}

\* A /forgot-password request that has not arrived.
NoForgot == [pc |-> "idle", user |-> NoUser, response |-> "none",
             background_tasks |-> <<>>, done |-> 0, outcome |-> "none"]

VARIABLES
    balance,       \* database: wallet id -> stored balance
    rows,          \* database: the transaction table, row id = index
    service_price, \* database: the ServicePrice table
    pc,            \* per request: position of its handler coroutine
    req,           \* per request: index of its intent in Intents
    loc,           \* per request: the handler's local variables
    calls,         \* per request: vendor calls made, with what they answered
    emails,        \* per request: notifications queued on background_tasks
    result,        \* per request: HTTP status returned to the caller
    detail,        \* per request: pieces of the error detail returned
    delivered,     \* per request: background email tasks run, last outcome
    ev,            \* per request: the /electricity/verify handler
    tid,           \* generate_trans_id: the clock and the id last returned
    vtu,           \* class VTUAutomator: _instance, _driver, holder of _lock
    tv,            \* per TV request: its handler and its worker thread
    fp,            \* per email: the /forgot-password handler and its tasks
    before,        \* history: stored balance of the user's wallet at arrival
    seen,          \* history: balance that get_by_user_id returned
    interfered,    \* history: another request wrote this wallet meanwhile
    trail,         \* history: ledger writes this request committed, in order
    mine,          \* history: ids of the rows this request created
    faults         \* number of ledger operations that raised so far

vars == <<balance, rows, service_price, pc, req, loc, calls, emails, result,
          detail, delivered, ev, tid, vtu, tv, fp,
          before, seen, interfered, trail, mine, faults>>

NoLocals == [cost_price |-> 0, profit |-> 0, selling_price |-> 0,
             wallet_balance |-> 0, txid |-> 0, status |-> "none",
             meta_data |-> <<>>, err |-> "none"]

\* The /electricity/verify handler of a slot before its request arrives.
NoVerify == [pc |-> "idle", provider |-> <<>>, type |-> <<>>,
             calls |-> <<>>, status_code |-> 0, detail |-> <<>>]

Init ==
    /\ balance \in InitBalances
    /\ rows = <<>>
    /\ service_price \in PriceTables
    /\ pc = [r \in Slots |-> "idle"]
    /\ req = [r \in Slots |-> 0]
    /\ loc = [r \in Slots |-> NoLocals]
    /\ calls = [r \in Slots |-> <<>>]
    /\ emails = [r \in Slots |-> <<>>]
    /\ result = [r \in Slots |-> 0]
    /\ detail = [r \in Slots |-> <<>>]
    /\ delivered = [r \in Slots |-> [done |-> 0, outcome |-> "none"]]
    /\ ev = [r \in Slots |-> NoVerify]
    /\ tid = [now |-> Instants[1], trans_id |-> <<>>, previous |-> <<>>]
    /\ vtu = [_instance |-> 0, _driver |-> "none", made |-> 0, held |-> {}]
    /\ tv = [c \in Callers |-> NoCall]
    /\ fp = [email \in Emails |-> NoForgot]
    /\ before = [r \in Slots |-> 0]
    /\ seen = [r \in Slots |-> 0]
    /\ interfered = [r \in Slots |-> FALSE]
    /\ trail = [r \in Slots |-> <<>>]
    /\ mine = [r \in Slots |-> {}]
    /\ faults = 0

\* ---------------------------------------------------------------- pricing

None == [service_identifier |-> <<>>, profit_type |-> "none", profit_value |-> 0]

\* select(ServicePrice).where(service_identifier == ...) ; result.first()
PriceConfig(table, service_identifier) ==
    LET found == {p \in table : p.service_identifier = service_identifier}
    IN  IF found = {} THEN None ELSE CHOOSE p \in found : TRUE

\* Variant of ComputeProfit: a percentage rule's value is taken as the profit.
ComputeProfit_PercentAsFixed(cost_price, price_config) ==
    IF price_config = None THEN 0
    ELSE IF price_config.profit_type \in {"fixed", "percentage"}
         THEN price_config.profit_value
    ELSE 0

\* profit = 0.0; FIXED: profit_value; PERCENTAGE: cost_price * (profit_value / 100)
ComputeProfit(cost_price, price_config) ==
    IF price_config = None THEN 0
    ELSE IF price_config.profit_type = "fixed" THEN price_config.profit_value
    ELSE IF price_config.profit_type = "percentage"
         THEN (cost_price * price_config.profit_value) \div 100
    ELSE 0

\* selling_price = cost_price + profit
SellingPrice(cost_price, profit) == cost_price + profit

\* ------------------------------------------------------------- routing

\* Variant of IsCanonicalElectricity: the provider is compared as spelled.
IsCanonicalElectricity_AsSpelled(provider) ==
    provider \in {enugu_electric, Lower(EEDC), eddc}

\* request.provider.lower() in ["enugu-electric", "eedc", "eddc"]
IsCanonicalElectricity(provider) ==
    Lower(provider) \in {Lower(EnuguElectric), Lower(EEDC), eddc}

Intent(r) == Intents[req[r]]
User(r) == Intent(r).user
Wallet(r) == WalletOf(User(r))

UsesEbills(r) ==
    /\ Intent(r).product = "electricity"
    /\ IsCanonicalElectricity(Intent(r).provider)

\* One piece of the free-text audit trail transaction.meta_data.
Entry(tag, text) == [tag |-> tag, text |-> text]

\* ------------------------------------------------------------ ledger store

InFlight(r) == pc[r] # "idle"

\* Every other request that has arrived and uses wallet w sees it change.
Disturb(r, w) ==
    [q \in Slots |->
        IF q # r /\ InFlight(q) /\ Wallet(q) = w THEN TRUE ELSE interfered[q]]

\* wallet_repo.update(wallet, {"balance": wallet.balance}): stores the value
\* the handler computed on its own copy of the wallet.
StoreBalance(r) == [balance EXCEPT ![Wallet(r)] = loc[r].wallet_balance]

\* wallet_repo.update_transaction(transaction): stores status and meta_data
\* of the handler's transaction object.
StoreTransaction(txid, status, meta_data) ==
    [rows EXCEPT ![txid].status = status, ![txid].meta_data = meta_data]

\* ------------------------------------------------------------- handlers

\* A request arrives; the handler looks up the pricing rule and computes
\* the selling price (purchase_airtime 54-69, purchase_data 188-203,
\* purchase_electricity 370-385).
ComputePrice(r, i) ==
    /\ pc[r] = "idle"
    /\ LET in == Intents[i]
           price_config == PriceConfig(service_price,
                               ServiceIdentifier(in.product, in.provider))
           cost_price == in.amount
           profit == ComputeProfit(cost_price, price_config)
       IN  /\ loc' = [loc EXCEPT ![r] =
                        [NoLocals EXCEPT !.cost_price = cost_price,
                                         !.profit = profit,
                                         !.selling_price = SellingPrice(cost_price, profit)]]
           /\ before' = [before EXCEPT ![r] =
                           IF WalletOf(in.user) \in Wallets
                           THEN balance[WalletOf(in.user)] ELSE 0]
    /\ req' = [req EXCEPT ![r] = i]
    /\ pc' = [pc EXCEPT ![r] = "get_wallet"]
    /\ UNCHANGED <<balance, rows, service_price, calls, emails, result,
                   detail, delivered, ev, tid, vtu, tv, fp,
                   seen, interfered, trail, mine, faults>>

\* if not wallet (72)
WalletMissing(wallet) == wallet \notin Wallets

\* Variant of Insufficient: only an empty wallet is turned away.
Insufficient_OnlyEmpty(wallet_balance, selling_price) == wallet_balance <= 0

\* Variant of Insufficient: a balance equal to the price is turned away too.
Insufficient_NotStrict(wallet_balance, selling_price) ==
    wallet_balance <= selling_price

\* if wallet.balance < selling_price (75)
Insufficient(wallet_balance, selling_price) == wallet_balance < selling_price

\* Variant of Debited: the debit is left out of the handler's copy.
Debited_NotTaken(wallet_balance, selling_price) == wallet_balance

\* wallet.balance -= selling_price (79)
Debited(wallet_balance, selling_price) == wallet_balance - selling_price

\* Variant of Credited: the refund adds nothing to the handler's copy.
Credited_NotGiven(wallet_balance, selling_price) == wallet_balance

\* wallet.balance += selling_price (145)
Credited(wallet_balance, selling_price) == wallet_balance + selling_price

\* Variant of Reject: the rejection also queues the failure email.
Reject_Notifies(r, status_code, text) ==
    /\ pc' = [pc EXCEPT ![r] = "rejected"]
    /\ result' = [result EXCEPT ![r] = status_code]
    /\ loc' = [loc EXCEPT ![r].err = text]
    /\ detail' = [detail EXCEPT ![r] = <<text>>]
    /\ emails' = [emails EXCEPT ![r] = Append(@, "purchase_failed")]
    /\ UNCHANGED calls

\* raise HTTPException(status_code=..., detail=...) before the debit (73, 76):
\* the handler ends there.
Reject(r, status_code, text) ==
    /\ pc' = [pc EXCEPT ![r] = "rejected"]
    /\ result' = [result EXCEPT ![r] = status_code]
    /\ loc' = [loc EXCEPT ![r].err = text]
    /\ detail' = [detail EXCEPT ![r] = <<text>>]
    /\ UNCHANGED <<emails, calls>>

\* wallet = await wallet_repo.get_by_user_id(...); the two admission checks;
\* wallet.balance -= selling_price on the handler's copy (71-79).
GetWallet(r) ==
    /\ pc[r] = "get_wallet"
    /\ IF WalletMissing(Wallet(r))
       THEN /\ Reject(r, 404, "Wallet not found")
            /\ UNCHANGED seen
       ELSE /\ seen' = [seen EXCEPT ![r] = balance[Wallet(r)]]
            /\ IF Insufficient(balance[Wallet(r)], loc[r].selling_price)
               THEN Reject(r, 400, "Insufficient funds")
               ELSE /\ pc' = [pc EXCEPT ![r] = "debit"]
                    /\ loc' = [loc EXCEPT ![r].wallet_balance =
                                  Debited(balance[Wallet(r)], loc[r].selling_price)]
                    /\ UNCHANGED <<result, detail, emails, calls>>
    /\ UNCHANGED <<balance, rows, service_price, req, delivered, ev, tid, vtu, tv, fp,
                   before, interfered, trail, mine, faults>>

\* Variant of DebitWallet: the debited balance is not written to the store
\* before the handler goes on.
DebitWallet_NotWritten(r) ==
    /\ pc[r] = "debit"
    /\ pc' = [pc EXCEPT ![r] = "create_transaction"]
    /\ UNCHANGED <<balance, rows, service_price, req, loc, calls, emails,
                   result, detail, delivered, ev, tid, vtu, tv, fp,
                   before, seen, interfered, trail, mine, faults>>

\* await wallet_repo.update(wallet, {"balance": wallet.balance}) (80).
DebitWallet(r) ==
    /\ pc[r] = "debit"
    /\ balance' = StoreBalance(r)
    /\ interfered' = Disturb(r, Wallet(r))
    /\ trail' = [trail EXCEPT ![r] = Append(@, "debit")]
    /\ pc' = [pc EXCEPT ![r] = "create_transaction"]
    /\ UNCHANGED <<rows, service_price, req, loc, calls, emails, result,
                   detail, delivered, ev, tid, vtu, tv, fp,
                   before, seen, mine, faults>>

ReferencePrefix(product) ==
    CASE product = "airtime" -> "AIRTIME"
      [] product = "data"    -> "DATA"
      [] OTHER               -> "ELEC"

\* transaction = Transaction(...) (85-96).
NewTransaction(r) ==
    [id |-> Len(rows) + 1,
     wallet_id |-> Wallet(r),
     user_id |-> User(r),
     amount |-> loc[r].selling_price,
     type |-> "debit",
     status |-> "processing",
     reference |-> <<ReferencePrefix(Intent(r).product), Wallet(r), Intent(r).recipient>>,
     service_type |-> Intent(r).product,
     meta_data |-> <<Entry("request", "")>>,
     profit |-> loc[r].profit]

\* await wallet_repo.create_transaction(transaction) (97); the next await is
\* the first vendor call.
CreateTransaction(r) ==
    /\ pc[r] = "create_transaction"
    /\ rows' = Append(rows, NewTransaction(r))
    /\ loc' = [loc EXCEPT ![r].txid = Len(rows) + 1,
                          ![r].status = "processing",
                          ![r].meta_data = <<Entry("request", "")>>]
    /\ mine' = [mine EXCEPT ![r] = @ \cup {Len(rows) + 1}]
    /\ trail' = [trail EXCEPT ![r] = Append(@, "create_transaction")]
    /\ pc' = [pc EXCEPT ![r] = IF UsesEbills(r) THEN "verify" ELSE "purchase"]
    /\ UNCHANGED <<balance, service_price, req, calls, emails, result,
                   detail, delivered, ev, tid, vtu, tv, fp,
                   before, seen, interfered, faults>>

\* One call of a vendor service, with the service id and amount it is given
\* and what the vendor answered.
VendorCall(op, adapter, service_id, amount, outcome) ==
    [op |-> op, adapter |-> adapter, service_id |-> service_id,
     amount |-> amount, outcome |-> outcome]

\* Variant of VerificationPassed: only an exception of the call stops the
\* purchase, the code of the answer is not looked at.
VerificationPassed_UnlessRaised(outcome) == outcome # "raise"

\* if verify_resp.get("code") != "success": raise (449-450); an exception of
\* the call itself is caught and re-raised as well (451-453).
VerificationPassed(outcome) == outcome = "success"

\* ebills_service.verify_customer and the check of its code, wrapped by the
\* inner try/except (purchase_electricity 443-453).
Verify(r, outcome) ==
    /\ pc[r] = "verify"
    /\ outcome \in {"success", "code", "raise"}
    /\ calls' = [calls EXCEPT ![r] =
                    Append(@, VendorCall("verify", "ebills", enugu_electric, 0, outcome))]
    /\ IF VerificationPassed(outcome)
       THEN /\ pc' = [pc EXCEPT ![r] = "purchase"]
            /\ UNCHANGED loc
       ELSE /\ pc' = [pc EXCEPT ![r] = "mark_failed"]
            /\ loc' = [loc EXCEPT ![r].err =
                          IF outcome = "code"
                          THEN "Verification Error: Customer Verification Failed"
                          ELSE "Verification Error: timeout"]
    /\ UNCHANGED <<balance, rows, service_price, req, emails, result,
                   detail, delivered, ev, tid, vtu, tv, fp,
                   before, seen, interfered, trail, mine, faults>>

\* service_id of the purchase call: "enugu-electric" for eBills (458);
\* request.network (103), request.plan_id (235) or request.provider (492)
\* for MobileNig, as the request spells it.
ServiceId(r) ==
    IF UsesEbills(r) THEN enugu_electric
    ELSE IF Intent(r).product = "data" THEN Intent(r).plan_id
    ELSE Intent(r).provider

\* What the vendor may answer to the purchase call: success (for eBills with
\* or without a token), a non-success code, or nothing (timeout, transport
\* fault).
PurchaseOutcomes(r) ==
    IF UsesEbills(r) THEN {"success", "token", "code", "raise"}
    ELSE {"success", "code", "raise"}

\* The call raises instead of returning a response.  ebills_service returns
\* the vendor's answer whatever its code (the handler reads the code, 464);
\* mobilenig_service.purchase_service returns the vendor's success payload or
\* raises a vendor error, also for a non-success answer.
PurchaseRaises(adapter, outcome) ==
    IF adapter = "ebills" THEN outcome = "raise"
    ELSE outcome # "success"

\* Variant of ResponseAccepted: every returned response counts as success.
ResponseAccepted_AnyCode(adapter, outcome) == TRUE

\* if response.get("code") == "success" (464); the MobileNig branches take
\* every returned response as success (113, 244, 508).
ResponseAccepted(adapter, outcome) ==
    IF adapter = "ebills" THEN outcome \in {"success", "token"}
    ELSE TRUE

Adapter(r) == IF UsesEbills(r) THEN "ebills" ELSE "mobilenig"

\* str(e) of the exception that leaves the purchase call or the code check.
PurchaseError(adapter, outcome) ==
    IF outcome = "raise" THEN "timeout"
    ELSE IF adapter = "ebills" THEN "eBills Error"
    ELSE "declined"

\* Variant of ExceptException: the handler makes the vendor call again.
ExceptException_Retry == "purchase"

\* Where an exception of the vendor call takes the handler: except Exception
\* as e (128, 249, 523), which marks the transaction failed and refunds; the
\* try block is not inside any loop.
ExceptException == "mark_failed"

\* Variant of ForwardedAmount: the vendor is handed what the user pays.
ForwardedAmount_SellingPrice(r) ==
    IF Intent(r).product = "data" THEN -1
    ELSE loc[r].selling_price

\* The "amount" of the purchase call: cost_price in the airtime payload
\* (105), in the eBills call (460) and in the MobileNig electricity payload
\* (494).  The data payload (235-242) has no "amount" key, the plan id is
\* all the vendor gets: -1 stands for the absent key.
ForwardedAmount(r) ==
    IF Intent(r).product = "data" THEN -1
    ELSE loc[r].cost_price

\* The vendor purchase call and the handling of its response up to the next
\* await (purchase_airtime 102-114, purchase_data 234-245,
\* purchase_electricity 455-474 and 492-509).
Purchase(r, outcome) ==
    /\ pc[r] = "purchase"
    /\ outcome \in PurchaseOutcomes(r)
    /\ calls' = [calls EXCEPT ![r] = Append(@,
                    VendorCall("purchase",
                               Adapter(r),
                               ServiceId(r),
                               ForwardedAmount(r),
                               outcome))]
    /\ IF /\ ~PurchaseRaises(Adapter(r), outcome)
          /\ ResponseAccepted(Adapter(r), outcome)
       THEN /\ pc' = [pc EXCEPT ![r] = "mark_success"]
            /\ loc' = [loc EXCEPT
                          ![r].status = "success",
                          ![r].meta_data =
                              IF outcome = "token"
                              THEN @ \o <<Entry("Response", "success"), Entry("Token", "1234")>>
                              ELSE Append(@, Entry("Response", outcome))]
       ELSE /\ pc' = [pc EXCEPT ![r] = ExceptException]
            /\ loc' = [loc EXCEPT ![r].err =
                          PurchaseError(Adapter(r), outcome)]
    /\ UNCHANGED <<balance, rows, service_price, req, emails, result,
                   detail, delivered, ev, tid, vtu, tv, fp,
                   before, seen, interfered, trail, mine, faults>>

\* Variant of AddTask: the task is not put on the queue.
AddTask_Dropped(background_tasks, template_name) == background_tasks

\* EmailService._add_task: background_tasks.add_task(_send_email_async, ...)
\* (email_service.py 98-113), called once by each send_..._email.
AddTask(background_tasks, template_name) ==
    Append(background_tasks, template_name)

\* await wallet_repo.update_transaction(transaction) with status success, the
\* success email, and the return (purchase_airtime 115-126 and 175).
MarkSuccess(r) ==
    /\ pc[r] = "mark_success"
    /\ rows' = StoreTransaction(loc[r].txid, loc[r].status, loc[r].meta_data)
    /\ trail' = [trail EXCEPT ![r] = Append(@, "update_transaction")]
    /\ emails' = [emails EXCEPT ![r] = AddTask(@, "purchase_success")]
    /\ result' = [result EXCEPT ![r] = 200]
    /\ pc' = [pc EXCEPT ![r] = "returned"]
    /\ UNCHANGED <<balance, service_price, req, loc, calls,
                   detail, delivered, ev, tid, vtu, tv, fp,
                   before, seen, interfered, mine, faults>>

\* Variant of ErrorAppended: the error takes the place of what the audit
\* trail held.
ErrorAppended_Overwrites(meta_data, e) == <<Entry("Error", e)>>

\* transaction.meta_data += f" | Error: {str(e)}" (130, 261, 525).
ErrorAppended(meta_data, e) == Append(meta_data, Entry("Error", e))

\* except Exception as e: status failed, the error appended to meta_data,
\* update_transaction, the failure email, wallet.balance += selling_price on
\* the handler's copy (purchase_airtime 128-145).
MarkFailed(r) ==
    /\ pc[r] = "mark_failed"
    /\ LET meta_data == ErrorAppended(loc[r].meta_data, loc[r].err)
       IN  /\ rows' = StoreTransaction(loc[r].txid, "failed", meta_data)
           /\ loc' = [loc EXCEPT ![r].status = "failed",
                                 ![r].meta_data = meta_data,
                                 ![r].wallet_balance =
                                     Credited(@, loc[r].selling_price)]
    /\ trail' = [trail EXCEPT ![r] = Append(@, "update_transaction")]
    /\ emails' = [emails EXCEPT ![r] = AddTask(@, "purchase_failed")]
    /\ pc' = [pc EXCEPT ![r] = "refund"]
    /\ UNCHANGED <<balance, service_price, req, calls, result,
                   detail, delivered, ev, tid, vtu, tv, fp,
                   before, seen, interfered, mine, faults>>

\* Variant of RefundWallet: the credited balance is not written to the
\* store before the refund row is created.
RefundWallet_NotWritten(r) ==
    /\ pc[r] = "refund"
    /\ pc' = [pc EXCEPT ![r] = "create_refund"]
    /\ UNCHANGED <<balance, rows, service_price, req, loc, calls, emails,
                   result, detail, delivered, ev, tid, vtu, tv, fp,
                   before, seen, interfered, trail, mine, faults>>

\* await wallet_repo.update(wallet, {"balance": wallet.balance}) (146).
RefundWallet(r) ==
    /\ pc[r] = "refund"
    /\ balance' = StoreBalance(r)
    /\ interfered' = Disturb(r, Wallet(r))
    /\ trail' = [trail EXCEPT ![r] = Append(@, "credit")]
    /\ pc' = [pc EXCEPT ![r] = "create_refund"]
    /\ UNCHANGED <<rows, service_price, req, loc, calls, emails, result,
                   detail, delivered, ev, tid, vtu, tv, fp,
                   before, seen, mine, faults>>

\* Variant of RefundTransaction: the reference names the refund row itself.
RefundTransaction_OwnId(r) ==
    [id |-> Len(rows) + 1,
     wallet_id |-> Wallet(r),
     user_id |-> User(r),
     amount |-> loc[r].selling_price,
     type |-> "credit",
     status |-> "success",
     reference |-> <<"REFUND", Len(rows) + 1>>,
     service_type |-> "refund",
     meta_data |-> <<Entry("Refund for failed transaction", "")>>,
     profit |-> 0]

\* refund_transaction = Transaction(...) (148-160).
RefundTransaction(r) ==
    [id |-> Len(rows) + 1,
     wallet_id |-> Wallet(r),
     user_id |-> User(r),
     amount |-> loc[r].selling_price,
     type |-> "credit",
     status |-> "success",
     reference |-> <<"REFUND", loc[r].txid>>,
     service_type |-> "refund",
     meta_data |-> <<Entry("Refund for failed transaction", "")>>,
     profit |-> 0]

\* Variant of FailureDetail: the detail is a fixed text without the cause.
FailureDetail_Generic(e) == <<"Transaction failed">>

\* detail=f"Transaction failed: {str(e)}" (173, 304, 568)
FailureDetail(e) == <<"Transaction failed: ", e>>

\* await wallet_repo.create_transaction(refund_transaction), the refund
\* email, raise HTTPException(400) (161-173).
CreateRefund(r) ==
    /\ pc[r] = "create_refund"
    /\ rows' = Append(rows, RefundTransaction(r))
    /\ mine' = [mine EXCEPT ![r] = @ \cup {Len(rows) + 1}]
    /\ trail' = [trail EXCEPT ![r] = Append(@, "create_refund")]
    /\ emails' = [emails EXCEPT ![r] = AddTask(@, "refund")]
    /\ result' = [result EXCEPT ![r] = 400]
    /\ detail' = [detail EXCEPT ![r] = FailureDetail(loc[r].err)]
    /\ pc' = [pc EXCEPT ![r] = "failed"]
    /\ UNCHANGED <<balance, service_price, req, loc, calls, delivered, ev, tid, vtu, tv, fp,
                   before, seen, interfered, faults>>

\* The awaits of the handler that write to the ledger store.
LedgerWrites == {"debit", "create_transaction", "mark_success",
                 "mark_failed", "refund", "create_refund"}

\* Variant of Unhandled: the exception of a ledger write is reported like a
\* failed vendor call.
Unhandled_AsVendorFailure ==
    [status_code |-> 400, detail |-> FailureDetail("ledger error")]

\* An exception that no except clause of the handler catches (the awaits at
\* 80 and 97 are outside the try block, those at 131, 146 and 161 inside
\* the except block): the request ends with the framework's response.
Unhandled == [status_code |-> 500, detail |-> <<"Internal Server Error">>]

\* A ledger write raises instead of committing.  Inside the try block
\* (update_transaction at 115) the exception is caught by except Exception
\* (128); everywhere else it leaves the handler, which ends with the
\* framework's 500 response.
LedgerFault(r) ==
    /\ pc[r] \in LedgerWrites
    /\ faults < MaxFaults
    /\ faults' = faults + 1
    /\ IF pc[r] = "mark_success"
       THEN /\ pc' = [pc EXCEPT ![r] = "mark_failed"]
            /\ loc' = [loc EXCEPT ![r].err = "ledger error"]
            /\ UNCHANGED <<result, detail>>
       ELSE /\ pc' = [pc EXCEPT ![r] = "aborted"]
            /\ result' = [result EXCEPT ![r] = Unhandled.status_code]
            /\ detail' = [detail EXCEPT ![r] = Unhandled.detail]
            /\ UNCHANGED loc
    /\ UNCHANGED <<balance, rows, service_price, req, calls, emails,
                   delivered, ev, tid, vtu, tv, fp,
                   before, seen, interfered, trail, mine>>

\* ------------------------------------------- POST /electricity/verify

\* The ElectricityVerifyRequest values the model draws from.
VerifyProviders == {EEDC, eddc, EnuguElectric, enugu_electric, aedc}
prepaid == <<"p","r","e","p","a","i","d">>
POSTPAID == <<"P","O","S","T","P","A","I","D">>
VerifyTypes == {prepaid, POSTPAID}

\* What the purchase handlers own: the verify handler leaves it alone.
purchase_vars == <<balance, rows, service_price, pc, req, loc, calls, emails,
                   result, detail, delivered,
                   before, seen, interfered, trail, mine, faults>>

\* variation_id = "prepaid"; if request.type.lower() == "postpaid": "postpaid"
VariationId(type) ==
    IF Lower(type) = Lower(POSTPAID) THEN "postpaid" ELSE "prepaid"

HTTPException(status_code, text) == [status_code |-> status_code, detail |-> text]

\* str(e) of a caught exception.  For an HTTPException it is
\* "<status_code>: <detail>" or the empty string, depending on the
\* installed framework version; for any other exception it is its message.
Str(e) ==
    IF e.status_code = 0 THEN {e.detail}
    ELSE {<<e.status_code, ": ">> \o e.detail, <<>>}

\* except Exception as e: raise HTTPException(status_code=500, detail=str(e))
\* (356-357): catches everything raised in the try block, the
\* HTTPException of line 346 included.
Surfaced(e, text) == HTTPException(500, text)

\* The handler up to its first await: alias mapping (326-328); for service
\* id enugu-electric the call of ebills_service.verify_customer is awaited
\* (338-342), every other provider is answered at once (354).
VerifyRequest(r, provider, type) ==
    /\ ev[r].pc = "idle"
    /\ LET service_id == IF IsCanonicalElectricity(provider)
                         THEN enugu_electric ELSE provider
       IN  ev' = [ev EXCEPT ![r] =
                IF service_id = enugu_electric
                THEN [@ EXCEPT !.pc = "verify_customer",
                               !.provider = provider, !.type = type]
                ELSE [@ EXCEPT !.pc = "returned",
                               !.provider = provider, !.type = type,
                               !.status_code = 200,
                               !.detail = <<"Verification skipped">>]]
    /\ UNCHANGED <<purchase_vars, tid, vtu, tv, fp>>

\* The answer of verify_customer and the rest of the handler (343-357).
VerifyCustomer(r, outcome) ==
    /\ ev[r].pc = "verify_customer"
    /\ outcome \in {"success", "code", "raise"}
    /\ LET call == [op |-> "verify", adapter |-> "ebills",
                    service_id |-> enugu_electric,
                    variation_id |-> VariationId(ev[r].type),
                    outcome |-> outcome]
           e == IF outcome = "code"
                THEN HTTPException(400, <<"Verification Failed: ", "invalid meter">>)
                ELSE [status_code |-> 0, detail |-> <<"timeout">>]
       IN  IF outcome = "success"
           THEN ev' = [ev EXCEPT ![r].pc = "returned",
                                 ![r].calls = Append(@, call),
                                 ![r].status_code = 200]
           ELSE \E text \in Str(e) :
                    ev' = [ev EXCEPT ![r].pc = "raised",
                                     ![r].calls = Append(@, call),
                                     ![r].status_code = Surfaced(e, text).status_code,
                                     ![r].detail = Surfaced(e, text).detail]
    /\ UNCHANGED <<purchase_vars, tid, vtu, tv, fp>>

NextVerifyElectricity ==
    \/ \E r \in Slots, provider \in VerifyProviders, type \in VerifyTypes :
           VerifyRequest(r, provider, type)
    \/ \E r \in Slots, o \in {"success", "code", "raise"} : VerifyCustomer(r, o)

\* The verification endpoint on its own.
SpecVerifyElectricity == Init /\ [][NextVerifyElectricity]_vars

\* --------------------------------------------- background email tasks

\* What mailjet.send.create does: answers 200, answers another status, or
\* raises (email_service.py 88-94).
DeliveryOutcomes == {"sent", "status", "raise"}

\* Variant of AfterDelivery: an exception of the send leaves the task and
\* turns the request's result into a server error.
AfterDelivery_Raised(status_code, outcome) ==
    IF outcome = "raise" THEN 500 ELSE status_code

\* try: mailjet.send.create(...) / except Exception: logger.error(...)
\* (email_service.py 87-96): every outcome is logged and the task returns;
\* the result of the request is not touched.
AfterDelivery(status_code, outcome) == status_code

\* The next queued task of a request whose handler has ended runs
\* EmailService._send_email_async (email_service.py 49-96).
SendEmailAsync(r, outcome) ==
    /\ pc[r] \in {"returned", "rejected", "failed", "aborted"}
    /\ delivered[r].done < Len(emails[r])
    /\ outcome \in DeliveryOutcomes
    /\ delivered' = [delivered EXCEPT ![r] =
                        [done |-> @.done + 1, outcome |-> outcome]]
    /\ result' = [result EXCEPT ![r] = AfterDelivery(@, outcome)]
    /\ UNCHANGED <<balance, rows, service_price, pc, req, loc, calls, emails,
                   detail, ev, tid, vtu, tv, fp, before, seen, interfered, trail, mine, faults>>

\* ------------------------------------------------------ generate_trans_id

ascii_uppercase ==
    <<"A", "B", "C", "D", "E", "F", "G", "H", "I", "J", "K", "L", "M",
      "N", "O", "P", "Q", "R", "S", "T", "U", "V", "W", "X", "Y", "Z">>

digits == <<"0", "1", "2", "3", "4", "5", "6", "7", "8", "9">>

\* A strftime field that is zero-padded to two decimal digits.
TwoDigits(n) == <<digits[(n \div 10) + 1], digits[(n % 10) + 1]>>

\* Variant of strftime: the year is written in full (%Y).
strftime_FullYear(now) ==
    TwoDigits(now.year \div 100) \o TwoDigits(now.year % 100)
    \o TwoDigits(now.month) \o TwoDigits(now.day)
    \o TwoDigits(now.hour) \o TwoDigits(now.minute) \o TwoDigits(now.second)

\* datetime.now().strftime("%y%m%d%H%M%S") (25): %y is the year without
\* century.
strftime(now) ==
    TwoDigits(now.year % 100) \o TwoDigits(now.month) \o TwoDigits(now.day)
    \o TwoDigits(now.hour) \o TwoDigits(now.minute) \o TwoDigits(now.second)

\* random.choices(population, k=3) (26): three independent picks, given as
\* positions in the population.
Choices(population) == [1..3 -> 1..Len(population)]

\* generate_trans_id(prefix) (21-27) at time now with the picks the random
\* generator made; the prefix is not used.
generate_trans_id(prefix, now, picks) ==
    LET population == ascii_uppercase \o digits
        timestamp == strftime(now)
        suffix == [i \in 1..3 |-> population[picks[i]]]
    IN  timestamp \o suffix

\* One call of generate_trans_id by a handler.
GenerateTransId(prefix, picks) ==
    /\ tid.trans_id = <<>>
    /\ tid' = [tid EXCEPT !.trans_id = generate_trans_id(prefix, tid.now, picks)]
    /\ UNCHANGED <<purchase_vars, ev, vtu, tv, fp>>

\* Time passes; the next call is made at another time.
Elapse(now) ==
    /\ now # tid.now
    /\ tid' = [now |-> now, trans_id |-> <<>>, previous |-> <<>>]
    /\ UNCHANGED <<purchase_vars, ev, vtu, tv, fp>>

NextTransId ==
    \/ /\ tid.trans_id = <<>>
       /\ \E prefix \in Prefixes, picks \in Choices(ascii_uppercase \o digits) :
              GenerateTransId(prefix, picks)
    \/ \E i \in 1..Len(Instants) : Elapse(Instants[i])

\* The next call of generate_trans_id by a handler, after the one that
\* returned tid.trans_id: the refund id of the except block (148, 279, 543)
\* after the id of the debit (83, 216, 398), or the id of another purchase
\* attempt.  The id of the earlier call is kept in previous.
GenerateNextTransId(prefix, picks) ==
    /\ tid.trans_id # <<>>
    /\ tid.previous = <<>>
    /\ tid' = [tid EXCEPT !.previous = tid.trans_id,
                          !.trans_id = generate_trans_id(prefix, tid.now, picks)]
    /\ UNCHANGED <<purchase_vars, ev, vtu, tv, fp>>

\* Time passes between the two calls: the vendor call of the handler took
\* more than the rest of the second.
Later(now) ==
    /\ tid.trans_id # <<>>
    /\ tid.previous = <<>>
    /\ now # tid.now
    /\ tid' = [tid EXCEPT !.now = now]
    /\ UNCHANGED <<purchase_vars, ev, vtu, tv, fp>>

\* Picks of random.choices that the two calls are followed on: each of the
\* three positions is the first or the last character of the population.
PairChoices == [1..3 -> {1, Len(ascii_uppercase \o digits)}]

NextTransIdPair ==
    \/ \E prefix \in Prefixes, picks \in PairChoices : GenerateTransId(prefix, picks)
    \/ \E prefix \in Prefixes, picks \in PairChoices : GenerateNextTransId(prefix, picks)
    \/ \E i \in 1..Len(Instants) : Later(Instants[i])
    \/ \E i \in 1..Len(Instants) : Elapse(Instants[i])

\* ---------------------------------------------- VTUAutomator, /tv handlers

\* Variant of LockOf: every instance has a lock of its own.
LockOf_OwnLock(self) == self

\* self._lock: _lock is assigned once in the class body (23) and never on an
\* instance, so it is the one lock 0 of the class whatever the instance.
LockOf(self) == 0

Free(lock) == \A h \in vtu.held : h.lock # lock

\* vtu_service = VTUAutomator() in the handler (586, 604, 630), run by the
\* event loop: __new__ makes the singleton under the lock when there is none
\* (25-30), __init__ builds the driver under the lock when there is none
\* (32-37).  Where it needs the lock it waits until the lock is free; an
\* exception of setup_driver leaves the handler, which is before its try.
VTUAutomator(c, op, outcome) ==
    /\ tv[c].pc = "idle"
    /\ op \in Requested(c)
    /\ LET fresh == vtu._instance = 0
           self == IF fresh THEN vtu.made + 1 ELSE vtu._instance
           build == vtu._driver = "none"
       IN  /\ (fresh \/ build) => Free(LockOf(self))
           /\ outcome \in (IF build THEN {"ok", "raise"} ELSE {"ok"})
           /\ vtu' = [vtu EXCEPT
                         !._instance = self,
                         !.made = IF fresh THEN @ + 1 ELSE @,
                         !._driver = IF build /\ outcome = "ok"
                                     THEN "chrome" ELSE @]
           /\ tv' = [tv EXCEPT ![c] =
                        [@ EXCEPT !.op = op, !.self = self,
                                  !.pc = IF outcome = "raise"
                                         THEN "raised" ELSE "queued",
                                  !.status_code = IF outcome = "raise"
                                                  THEN 500 ELSE 0]]
    /\ UNCHANGED <<purchase_vars, ev, tid, fp>>

\* with self._lock: (151, 231, 327) in the worker thread that
\* run_in_threadpool gave the operation.
AcquireLock(c) ==
    /\ tv[c].pc = "queued"
    /\ Free(LockOf(tv[c].self))
    /\ vtu' = [vtu EXCEPT !.held = @ \cup {[lock |-> LockOf(tv[c].self), by |-> c]}]
    /\ tv' = [tv EXCEPT ![c].pc = "attempt"]
    /\ UNCHANGED <<purchase_vars, ev, tid, fp>>

\* Variant of LoopExhausted: the loop goes on as long as sessions fail.
LoopExhausted_Never(attempt) == FALSE

\* for attempt in range(2) (152, 232, 328): no iteration is left after
\* attempt iterations.
LoopExhausted(attempt) == attempt >= 2

\* Variant of Returned: the lock is still held when the operation has
\* returned.
Returned_LockKept(c, call, ret) ==
    /\ tv' = [tv EXCEPT ![c] = [call EXCEPT !.pc = "done", !.ret = ret]]
    /\ UNCHANGED vtu

\* The operation returns ret and leaves the with block, which releases the
\* lock.
Returned(c, call, ret) ==
    /\ tv' = [tv EXCEPT ![c] = [call EXCEPT !.pc = "done", !.ret = ret]]
    /\ vtu' = [vtu EXCEPT !.held = {h \in @ : h.by # c}]

\* except (InvalidSessionIdException, WebDriverException) (219-224, 312-315,
\* 385-388): driver and singleton are dropped and the loop goes to its next
\* iteration; return False (225, 319, 392) when there is none.
SessionLost(c, call) ==
    LET attempt == call.attempt + 1
    IN  IF LoopExhausted(attempt)
        THEN /\ tv' = [tv EXCEPT ![c] = [call EXCEPT !.attempt = attempt,
                                                    !.pc = "done",
                                                    !.ret = "False"]]
             /\ vtu' = [vtu EXCEPT !._driver = "none", !._instance = 0,
                                   !.held = {h \in @ : h.by # c}]
        ELSE /\ tv' = [tv EXCEPT ![c] = [call EXCEPT !.attempt = attempt,
                                                    !.pc = "attempt"]]
             /\ vtu' = [vtu EXCEPT !._driver = "none", !._instance = 0]

\* What setup_driver may do: build the browser, raise a WebDriverException
\* (the browser does not start), or raise another exception (the driver
\* binary cannot be installed).
SetupOutcomes == {"ok", "session", "error"}

\* if not self.driver: self.setup_driver() at the head of an iteration
\* (154-155, 234-235, 330-331).
SetupDriver(c, outcome) ==
    /\ tv[c].pc = "attempt"
    /\ IF vtu._driver # "none"
       THEN /\ outcome = "ok"
            /\ tv' = [tv EXCEPT ![c].pc = "sequence"]
            /\ UNCHANGED vtu
       ELSE /\ outcome \in SetupOutcomes
            /\ CASE outcome = "ok" ->
                        /\ vtu' = [vtu EXCEPT !._driver = "chrome"]
                        /\ tv' = [tv EXCEPT ![c].pc = "sequence"]
                 [] outcome = "session" -> SessionLost(c, tv[c])
                 [] OTHER -> Returned(c, tv[c], "False")
    /\ UNCHANGED <<purchase_vars, ev, tid, fp>>

\* How a run of the login-and-act sequence may end.  value: it ran to its
\* return (208-210, 303-307, 376-380).  not_found: an iframe was not found
\* (213, 310, 383 and the raise of 246-247), or another non-selenium
\* exception.  session: the browser crashed or its session is invalid,
\* before anything was submitted.  timeout: a wait.until for an element of
\* the login or search page timed out (138, 144, 170, 252, 348) in a live
\* session.  session_late, for purchase_tv: a selenium exception after the
\* recharge button was clicked and the popup accepted (278-284), such as
\* the wait of line 300, which no try protects, timing out.
SequenceOutcomes(op) ==
    IF op = "purchase_tv"
    THEN {"value", "not_found", "session", "timeout", "session_late"}
    ELSE {"value", "not_found", "session", "timeout"}

\* The outcomes that except (InvalidSessionIdException, WebDriverException)
\* catches (219, 312, 385): every selenium exception derives from
\* WebDriverException, TimeoutException included.
WebDriverExceptions == {"session", "timeout", "session_late"}

\* The recharge was submitted in this run (278 and 282-284).
Submits(op, outcome) ==
    op = "purchase_tv" /\ outcome \in {"value", "session_late"}

\* One run of the login-and-act sequence (157-217, 237-310, 333-383) and
\* what the except clauses make of its end.
LoginAndAct(c, outcome) ==
    /\ tv[c].pc = "sequence"
    /\ outcome \in SequenceOutcomes(tv[c].op)
    /\ LET call == [tv[c] EXCEPT
                       !.runs = @ + 1,
                       !.submitted = IF Submits(tv[c].op, outcome)
                                     THEN @ + 1 ELSE @,
                       !.fail = IF outcome \in {"timeout", "not_found"}
                                THEN outcome ELSE @]
       IN  CASE outcome = "value" -> Returned(c, call, "value")
             [] outcome \in WebDriverExceptions -> SessionLost(c, call)
             [] OTHER -> Returned(c, call, "False")
    /\ UNCHANGED <<purchase_vars, ev, tid, fp>>

\* The status the handler answers with: the value of the operation when it
\* is truthy (591, 609, 637); otherwise an HTTPException (404 or 400) raised
\* inside the try, which except Exception turns into 500 (592-593, 612-613,
\* 642-645).
TvStatus(ret) == IF ret = "value" THEN 200 ELSE 500

\* Variant of Respond: a failed TV purchase credits the wallet, as the text
\* of its error says.
Respond_Refunds(c) ==
    /\ tv[c].pc = "done"
    /\ tv' = [tv EXCEPT ![c].pc = "returned",
                        ![c].status_code = TvStatus(tv[c].ret)]
    /\ balance' = IF tv[c].op = "purchase_tv" /\ tv[c].ret = "False"
                  THEN [balance EXCEPT !["w1"] = @ + 50]
                  ELSE balance
    /\ UNCHANGED <<rows, service_price, pc, req, loc, calls, emails,
                   result, detail, delivered, ev, tid, vtu, fp,
                   before, seen, interfered, trail, mine, faults>>

\* The handler after the worker thread has returned (589-593, 607-613,
\* 633-645): it answers, and calls neither wallet_repo nor EmailService.
Respond(c) ==
    /\ tv[c].pc = "done"
    /\ tv' = [tv EXCEPT ![c].pc = "returned",
                        ![c].status_code = TvStatus(tv[c].ret)]
    /\ UNCHANGED <<purchase_vars, ev, tid, vtu, fp>>

NextTv ==
    \/ \E c \in Callers, op \in Operations, outcome \in {"ok", "raise"} :
           VTUAutomator(c, op, outcome)
    \/ \E c \in Callers : AcquireLock(c)
    \/ \E c \in Callers, outcome \in SetupOutcomes : SetupDriver(c, outcome)
    \/ \E c \in Callers, outcome \in SequenceOutcomes("purchase_tv") :
           LoginAndAct(c, outcome)
    \/ \E c \in Callers : Respond(c)

\* The steps of the handlers when every ledger write commits.

\* ------------------------------------------------ /forgot-password (auth.py)

\* user_repo.get_by_email(email): the row with that email, or no user.
GetByEmail(email) ==
    LET found == {u \in UserTable : u.email = email}
    IN  IF found = {} THEN NoUser ELSE CHOOSE u \in found : TRUE

\* The handler is called with an email (71-76).
ForgotPassword(email) ==
    /\ fp[email].pc = "idle"
    /\ fp' = [fp EXCEPT ![email].pc = "get_by_email"]
    /\ UNCHANGED <<purchase_vars, ev, tid, vtu, tv>>

\* Variant of UserMissing: a request for an unknown email is answered 404.
UserMissing_Revealed == [status_code |-> 404, message |-> "User not found"]

\* if not user: return {"message": ...} (81-83)
UserMissing ==
    [status_code |-> 200,
     message |-> "If the email exists, a reset link has been sent."]

\* return {"message": ...} after the reset email was queued (90)
ResetQueued ==
    [status_code |-> 200,
     message |-> "If the email exists, a reset link has been sent."]

\* user = await user_repo.get_by_email(email); if not user: return (80-83)
LookUpUser(email) ==
    /\ fp[email].pc = "get_by_email"
    /\ LET user == GetByEmail(email)
       IN  fp' = [fp EXCEPT ![email] =
                    IF user = NoUser
                    THEN [@ EXCEPT !.pc = "returned", !.response = UserMissing]
                    ELSE [@ EXCEPT !.pc = "send", !.user = user]]
    /\ UNCHANGED <<purchase_vars, ev, tid, vtu, tv>>

\* create_email_token, send_password_reset_email and the return (85-90):
\* the email is put on background_tasks, nothing is sent yet.
SendPasswordResetEmail(email) ==
    /\ fp[email].pc = "send"
    /\ fp' = [fp EXCEPT ![email] =
                [@ EXCEPT !.pc = "returned",
                          !.background_tasks = AddTask(@, "password_reset"),
                          !.response = ResetQueued]]
    /\ UNCHANGED <<purchase_vars, ev, tid, vtu, tv>>

\* After the response, the queued task runs EmailService._send_email_async
\* (email_service.py 49-96); what it meets does not reach the caller.
RunResetTask(email, outcome) ==
    /\ fp[email].pc = "returned"
    /\ fp[email].done < Len(fp[email].background_tasks)
    /\ fp' = [fp EXCEPT ![email] =
                [@ EXCEPT !.done = @ + 1, !.outcome = outcome]]
    /\ UNCHANGED <<purchase_vars, ev, tid, vtu, tv>>

NextForgotPassword ==
    \/ \E email \in Emails : ForgotPassword(email)
    \/ \E email \in Emails : LookUpUser(email)
    \/ \E email \in Emails : SendPasswordResetEmail(email)
    \/ \E email \in Emails, outcome \in DeliveryOutcomes : RunResetTask(email, outcome)

NextLedgerOk ==
    \/ \E r \in Slots, i \in IntentIds : ComputePrice(r, i)
    \/ \E r \in Slots : GetWallet(r)
    \/ \E r \in Slots : DebitWallet(r)
    \/ \E r \in Slots : CreateTransaction(r)
    \/ \E r \in Slots, o \in {"success", "code", "raise"} : Verify(r, o)
    \/ \E r \in Slots, o \in {"success", "token", "code", "raise"} : Purchase(r, o)
    \/ \E r \in Slots : MarkSuccess(r)
    \/ \E r \in Slots : MarkFailed(r)
    \/ \E r \in Slots : RefundWallet(r)
    \/ \E r \in Slots : CreateRefund(r)

Next ==
    \/ NextLedgerOk
    \/ \E r \in Slots : LedgerFault(r)

\* The engine on a ledger store whose writes may raise.
Spec == Init /\ [][Next]_vars

\* The engine on a ledger store whose writes always commit.
SpecLedgerOk == Init /\ [][NextLedgerOk]_vars

NextDelivery ==
    \/ NextLedgerOk
    \/ \E r \in Slots, o \in DeliveryOutcomes : SendEmailAsync(r, o)

\* Delivery does not read balances or prices: one starting balance and one
\* price table, under which every branch of the handlers is still taken.
InitDelivery ==
    /\ Init
    /\ balance = [w \in Wallets |-> 100]
    /\ service_price = MixedRules

\* The engine together with the background tasks that deliver its emails.
SpecDelivery == InitDelivery /\ [][NextDelivery]_vars

\* Calls of generate_trans_id at the times of Instants, on a store that no
\* handler touches.
SpecTransId == InitDelivery /\ [][NextTransId]_vars

\* Two consecutive calls of generate_trans_id, in one second or in two.
SpecTransIdPair == InitDelivery /\ [][NextTransIdPair]_vars

\* The /forgot-password requests, on a store that no other handler touches.
SpecForgotPassword == InitDelivery /\ [][NextForgotPassword]_vars

\* The /tv handlers and their worker threads on the one VTUAutomator, on a
\* store that no other handler touches.
SpecTv == InitDelivery /\ [][NextTv]_vars

\* The steps of one TV request: its handler on the event loop and its
\* operation on a worker thread.
TvStep(c) ==
    \/ \E op \in Operations, outcome \in {"ok", "raise"} :
           VTUAutomator(c, op, outcome)
    \/ AcquireLock(c)
    \/ \E outcome \in SetupOutcomes : SetupDriver(c, outcome)
    \/ \E outcome \in SequenceOutcomes("purchase_tv") : LoginAndAct(c, outcome)
    \/ Respond(c)

\* close() (394-404), called by a thread that shuts the automator down or
\* resets it: the driver is quit and the reference cleared; the lock is
\* not taken.
Close ==
    /\ vtu._driver # "none"
    /\ vtu' = [vtu EXCEPT !._driver = "none"]
    /\ UNCHANGED <<purchase_vars, ev, tid, tv, fp>>

\* Two TV requests that meet, one of which may be a purchase.
Pair == {"c2", "c3"}

NextTvPair == \E c \in Pair : TvStep(c)

\* Two requests and a thread that may call close() at any time.
NextTvClose == NextTvPair \/ Close

SpecTvClose == InitDelivery /\ [][NextTvClose]_vars

\* Two requests under fair scheduling: both arrive, and the event loop and
\* every worker thread that can take a step eventually take one.  The
\* selenium calls of an operation return or raise within their timeouts.
SpecTvFair ==
    /\ InitDelivery
    /\ [][NextTvPair]_vars
    /\ \A c \in Pair : WF_vars(TvStep(c))

\* ------------------------------------------------------------ shorthands

Ended(r) == pc[r] \in {"returned", "rejected", "failed", "aborted"}

Committed(r, op) == \E k \in 1..Len(trail[r]) : trail[r][k] = op

\* The debit of r reached the store and has not been credited back.
Outstanding(r) == Committed(r, "debit") /\ ~Committed(r, "credit")

\* The handler ran to its return or to the raise that ends its except block.
Completed(r) == pc[r] \in {"returned", "failed"}

OwnerCompleted(txid) == \E r \in Slots : txid \in mine[r] /\ Completed(r)

\* The spellings under which the model's requests name the canonical
\* electricity vendor.
CanonicalAliases == {EEDC, eddc, EnuguElectric}

RefundRowsOf(txid) ==
    {k \in 1..Len(rows) : rows[k].reference = <<"REFUND", txid>>}

\* ---------------------------------------------------------------- claims

\* C1: a purchase attempt that was admitted and ended in the failure branch
\* (vendor or verification error), with no other request writing the same
\* wallet meanwhile, leaves the stored balance equal to the balance at its
\* arrival: the debit and the credit are both of the selling price recorded
\* on its transaction.
C1_FailedAttemptRestoresBalance ==
    \A r \in Slots :
        (pc[r] = "failed" /\ ~interfered[r]) =>
            /\ balance[Wallet(r)] = before[r]
            /\ Committed(r, "debit") /\ Committed(r, "credit")
            /\ rows[loc[r].txid].amount = loc[r].selling_price

C1_Witness ==
    \E r \in Slots :
        /\ pc[r] = "failed" /\ ~interfered[r]
        /\ loc[r].err = "timeout"
        /\ loc[r].profit > 0
        /\ before[r] = 100
        /\ balance[Wallet(r)] = 100

\* C2: a purchase attempt that ended in success, with no other request
\* writing the same wallet meanwhile, leaves the stored balance at the
\* balance at arrival minus the selling price, and has created exactly one
\* row: a debit of the selling price with status success; no credit row
\* refers to it.
C2_SuccessDebitsOnce ==
    \A r \in Slots :
        pc[r] = "returned" =>
            /\ ~interfered[r] =>
                   balance[Wallet(r)] = before[r] - loc[r].selling_price
            /\ mine[r] = {loc[r].txid}
            /\ rows[loc[r].txid].type = "debit"
            /\ rows[loc[r].txid].status = "success"
            /\ rows[loc[r].txid].amount = loc[r].selling_price
            /\ RefundRowsOf(loc[r].txid) = {}
            /\ \A k \in mine[r] : rows[k].type # "credit"

C2_Witness ==
    \E r \in Slots :
        /\ pc[r] = "returned" /\ ~interfered[r]
        /\ Intent(r).product = "airtime"
        /\ before[r] = 100
        /\ loc[r].selling_price = 50
        /\ balance[Wallet(r)] = 50
        /\ Len(rows) = 1

\* C3: every purchase attempt that has debited the wallet ends in one of the
\* two outcomes: its transaction is marked success, or the wallet has been
\* credited back and a refund transaction is recorded; this includes the
\* runs in which creating or updating a transaction record raises after the
\* debit.
C3_DebitAlwaysResolved ==
    \A r \in Slots :
        (Ended(r) /\ Committed(r, "debit")) =>
            \/ /\ loc[r].txid # 0
               /\ rows[loc[r].txid].status = "success"
               /\ ~Committed(r, "credit")
            \/ /\ loc[r].txid # 0
               /\ rows[loc[r].txid].status # "success"
               /\ Committed(r, "credit")
               /\ RefundRowsOf(loc[r].txid) # {}

\* C4: the balance check and the debit are atomic: two requests on the same
\* wallet that arrived at the same stored balance never both hold a debit
\* (debited and not credited back) when their selling prices sum to more
\* than that balance.
C4_AtMostOneAdmitted ==
    \A r, q \in Slots :
        (/\ r # q
         /\ InFlight(r) /\ InFlight(q)
         /\ Wallet(r) = Wallet(q)
         /\ before[r] = before[q]
         /\ loc[r].selling_price + loc[q].selling_price > before[r])
        => ~(Outstanding(r) /\ Outstanding(q))

\* C5: in every reachable state the stored balance of every wallet is
\* non-negative.
C5_BalanceNonNegative == \A w \in Wallets : balance[w] >= 0

\* Two requests raced on one wallet: both read the same balance, both
\* committed their debit, and the prices sum to more than that balance.
C5_Witness ==
    \E r, q \in Slots :
        /\ r # q
        /\ InFlight(r) /\ InFlight(q)
        /\ Wallet(r) = Wallet(q)
        /\ Committed(r, "debit") /\ Committed(q, "debit")
        /\ seen[r] = seen[q]
        /\ loc[r].selling_price + loc[q].selling_price > seen[r]
        /\ balance[Wallet(r)] >= 0

\* C6: every debit row with status failed whose attempt has completed has
\* exactly one row with reference REFUND-<its id>, and that row is a credit
\* with status success, service type refund, profit 0 and the debit's
\* amount; a debit row with status success has no such row.
C6_FailedDebitHasOneRefund ==
    \A t \in 1..Len(rows) :
        rows[t].type = "debit" =>
            /\ rows[t].status = "success" => RefundRowsOf(t) = {}
            /\ (rows[t].status = "failed" /\ OwnerCompleted(t)) =>
                   /\ Cardinality(RefundRowsOf(t)) = 1
                   /\ \A k \in RefundRowsOf(t) :
                          /\ rows[k].type = "credit"
                          /\ rows[k].status = "success"
                          /\ rows[k].service_type = "refund"
                          /\ rows[k].profit = 0
                          /\ rows[k].amount = rows[t].amount
            /\ OwnerCompleted(t) => rows[t].status \in {"success", "failed"}

C6_Witness ==
    \E t, u \in 1..Len(rows) :
        /\ rows[t].type = "debit" /\ rows[t].status = "failed"
        /\ OwnerCompleted(t)
        /\ rows[t].profit > 0
        /\ Cardinality(RefundRowsOf(t)) = 1
        /\ rows[u].type = "debit" /\ rows[u].status = "success"
        /\ OwnerCompleted(u)

\* C7: a request whose wallet balance is strictly less than its selling
\* price is rejected with status 400 "Insufficient funds" and has no side
\* effect: it writes nothing to the ledger, creates no row, calls no vendor
\* and queues no notification.
C7_InsufficientFundsRejected ==
    \A r \in Slots :
        (/\ InFlight(r) /\ pc[r] # "get_wallet"
         /\ Wallet(r) \in Wallets
         /\ seen[r] < loc[r].selling_price)
        => /\ pc[r] = "rejected"
           /\ result[r] = 400
           /\ loc[r].err = "Insufficient funds"
           /\ trail[r] = <<>>
           /\ mine[r] = {}
           /\ calls[r] = <<>>
           /\ emails[r] = <<>>
           /\ ~interfered[r] => balance[Wallet(r)] = before[r]

C7_Witness ==
    \E r \in Slots :
        /\ pc[r] = "rejected" /\ result[r] = 400
        /\ seen[r] = 10 /\ loc[r].selling_price = 50
        /\ rows = <<>>
        /\ balance[Wallet(r)] = 10

\* C8: a request of a user without a wallet is rejected with status 404
\* "Wallet not found" and has no side effect: no ledger write, no row, no
\* vendor call, no notification.
C8_NoWalletRejected ==
    \A r \in Slots :
        (/\ InFlight(r) /\ pc[r] # "get_wallet"
         /\ Wallet(r) \notin Wallets)
        => /\ pc[r] = "rejected"
           /\ result[r] = 404
           /\ loc[r].err = "Wallet not found"
           /\ trail[r] = <<>>
           /\ mine[r] = {}
           /\ calls[r] = <<>>
           /\ emails[r] = <<>>
           /\ \A t \in 1..Len(rows) : rows[t].user_id # User(r)

C8_Witness ==
    \E r \in Slots :
        /\ InFlight(r) /\ User(r) = "carol"
        /\ pc[r] = "rejected" /\ result[r] = 404

\* C9 (on a ledger store whose writes commit): for a request that names the canonical electricity vendor under any
\* of its aliases, the purchase call is only made after a verification call
\* of the same request that answered success; after a verification that
\* answered a non-success code or raised, no purchase call is made and the
\* request is on the refund path, at whose end the transaction is failed,
\* the wallet is credited by the selling price and one refund row exists.
C9_VerifyGatesPurchase ==
    \A r \in Slots :
        (InFlight(r) /\ Intent(r).product = "electricity"
                     /\ Intent(r).provider \in CanonicalAliases)
        => /\ \A k \in 1..Len(calls[r]) :
                  calls[r][k].op = "purchase" =>
                      /\ k = 2
                      /\ calls[r][1].op = "verify"
                      /\ calls[r][1].outcome = "success"
           /\ pc[r] \in {"purchase", "mark_success", "returned"} =>
                  (Len(calls[r]) >= 1 /\ calls[r][1].op = "verify")
           /\ (Len(calls[r]) >= 1 /\ calls[r][1].outcome # "success") =>
                  /\ Len(calls[r]) = 1
                  /\ pc[r] \in {"mark_failed", "refund", "create_refund", "failed"}
                  /\ pc[r] = "failed" =>
                         /\ rows[loc[r].txid].status = "failed"
                         /\ Committed(r, "credit")
                         /\ loc[r].wallet_balance = seen[r]
                         /\ Cardinality(RefundRowsOf(loc[r].txid)) = 1
                         /\ ~interfered[r] => balance[Wallet(r)] = before[r]

C9_Witness ==
    \E r \in Slots :
        /\ InFlight(r) /\ Intent(r).provider = EEDC
        /\ pc[r] = "failed"
        /\ Len(calls[r]) = 1 /\ calls[r][1].outcome = "code"
        /\ Cardinality(RefundRowsOf(loc[r].txid)) = 1

\* C10: the selling price of every request is its cost price when the
\* ServicePrice table has no rule for its service identifier or the rule is
\* neither fixed nor percentage, cost price + v under a fixed rule of value
\* v, and cost price * (1 + v/100) under a percentage rule of value v; the
\* profit, also as recorded on the transaction, is selling price minus cost
\* price.  This holds for airtime, data and electricity requests alike.
C10_SellingPrice ==
    \A r \in Slots :
        InFlight(r) =>
            LET cost == Intent(r).amount
                rules == {p \in service_price : p.service_identifier =
                             ServiceIdentifier(Intent(r).product, Intent(r).provider)}
                selling == loc[r].selling_price
            IN  /\ rules = {} => selling = cost
                /\ \A p \in rules :
                       /\ p.profit_type = "fixed" => selling = cost + p.profit_value
                       /\ p.profit_type = "percentage" =>
                              100 * selling = cost * (100 + p.profit_value)
                       /\ p.profit_type \notin {"fixed", "percentage"} => selling = cost
                /\ loc[r].profit = selling - cost
                /\ loc[r].txid # 0 =>
                       /\ rows[loc[r].txid].amount = selling
                       /\ rows[loc[r].txid].profit = selling - cost

C10_Witness ==
    \E r, q \in Slots :
        /\ InFlight(r) /\ InFlight(q)
        /\ Intent(r).product = "airtime" /\ loc[r].selling_price = 60
        /\ Intent(q).product = "electricity" /\ Intent(q).provider = EEDC
        /\ loc[q].cost_price = 50 /\ loc[q].selling_price = 60
        /\ loc[r].txid # 0 /\ loc[q].txid # 0

\* C11: an electricity request whose provider is one of the spellings EEDC,
\* eddc, Enugu-electric of the canonical vendor makes all its vendor calls
\* on the eBills adapter with service id enugu-electric; an electricity
\* request with any other provider makes only a purchase call, on the
\* MobileNig adapter, with the provider as spelled as service id, and is
\* never turned away for its provider: once admitted it reaches the vendor
\* call, and a rejection is always one of the two admission checks.
C11_ElectricityRouting ==
    \A r \in Slots :
        (InFlight(r) /\ Intent(r).product = "electricity") =>
            /\ \A k \in 1..Len(calls[r]) :
                   IF Intent(r).provider \in CanonicalAliases
                   THEN /\ calls[r][k].adapter = "ebills"
                        /\ calls[r][k].service_id = enugu_electric
                   ELSE /\ calls[r][k].adapter = "mobilenig"
                        /\ calls[r][k].op = "purchase"
                        /\ calls[r][k].service_id = Intent(r).provider
            /\ pc[r] = "rejected" =>
                   /\ detail[r] \in {<<"Wallet not found">>, <<"Insufficient funds">>}
                   /\ Wallet(r) \notin Wallets \/ seen[r] < loc[r].selling_price
            /\ (Intent(r).provider \notin CanonicalAliases /\ Completed(r)) =>
                   /\ Len(calls[r]) = 1
                   /\ calls[r][1].op = "purchase"
            /\ (Intent(r).provider \notin CanonicalAliases
                    /\ pc[r] \in {"mark_success", "mark_failed"}) =>
                   Len(calls[r]) = 1

C11_Witness ==
    \E r, q \in Slots :
        /\ InFlight(r) /\ InFlight(q)
        /\ Intent(r).provider = EEDC
        /\ Len(calls[r]) = 2 /\ calls[r][2].adapter = "ebills"
        /\ calls[r][2].op = "purchase"
        /\ Intent(q).provider = aedc
        /\ Len(calls[q]) = 1 /\ calls[q][1].adapter = "mobilenig"
        /\ calls[q][1].service_id = aedc

\* C12: within one attempt the ledger writes come in the order debit, then
\* creation of the transaction row, and the row is created in status
\* processing before any vendor call of the attempt; every step that makes
\* a vendor call (verification or purchase) starts from a state in which
\* the attempt's debit is committed and its row exists as a debit in
\* status processing.
C12_DebitRecordDispatch ==
    [][\A r \in Slots :
          /\ loc'[r].txid # loc[r].txid =>
                 /\ trail[r] = <<"debit">>
                 /\ calls[r] = <<>>
                 /\ rows'[loc'[r].txid].status = "processing"
                 /\ rows'[loc'[r].txid].type = "debit"
          /\ calls'[r] # calls[r] =>
                 /\ trail[r] = <<"debit", "create_transaction">>
                 /\ loc[r].txid \in 1..Len(rows)
                 /\ rows[loc[r].txid].type = "debit"
                 /\ rows[loc[r].txid].status = "processing"
                 /\ rows[loc[r].txid].wallet_id = Wallet(r)
                 /\ loc[r].wallet_balance = seen[r] - loc[r].selling_price
      ]_vars

C12_Witness ==
    \E r \in Slots :
        /\ InFlight(r) /\ UsesEbills(r)
        /\ Len(calls[r]) = 2
        /\ calls[r][1].op = "verify" /\ calls[r][2].op = "purchase"
        /\ trail[r] = <<"debit", "create_transaction">>
        /\ rows[loc[r].txid].status = "processing"

C14_RefundBeforeError ==
    \A r \in Slots :
        /\ (result[r] # 0 /\ Committed(r, "debit") /\ pc[r] # "aborted") =>
               \/ pc[r] = "returned" /\ result[r] = 200
               \/ /\ pc[r] = "failed" /\ result[r] = 400
                  /\ trail[r] = <<"debit", "create_transaction",
                                  "update_transaction", "credit", "create_refund">>
                  /\ Cardinality(RefundRowsOf(loc[r].txid)) = 1
                  /\ \E k \in mine[r] : rows[k].reference = <<"REFUND", loc[r].txid>>
                  /\ loc[r].wallet_balance = seen[r]
        /\ pc[r] \in {"mark_failed", "refund", "create_refund"} =>
               result[r] = 0 /\ detail[r] = <<>>

C14_Witness ==
    \E r \in Slots :
        /\ pc[r] = "failed" /\ result[r] = 400
        /\ Intent(r).product = "airtime"
        /\ Committed(r, "credit") /\ Committed(r, "create_refund")
        /\ balance[Wallet(r)] = before[r]

\* C15: an admitted purchase that failed because the vendor call raised
\* ends with a server error (status 5xx) for the caller, and a request
\* turned away by an admission check (wallet not found, insufficient
\* funds) ends with a client error (status 4xx).
C15_VendorFaultIsServerError ==
    \A r \in Slots :
        /\ (/\ pc[r] = "failed"
            /\ calls[r][Len(calls[r])].op = "purchase"
            /\ calls[r][Len(calls[r])].outcome = "raise")
           => result[r] \in 500..599
        /\ pc[r] = "rejected" => result[r] \in 400..499

\* C16: a verification of a customer of the canonical electricity vendor
\* that the vendor answers with a non-success code reaches the caller as a
\* client error (status 4xx) whose detail carries the reason, in the
\* /electricity/verify operation and in the electricity purchase.
C16_VerificationFailureIsClientError ==
    \A r \in Slots :
        /\ (/\ ev[r].pc \in {"returned", "raised"}
            /\ ev[r].calls # <<>>
            /\ ev[r].calls[1].outcome = "code")
           => /\ ev[r].status_code \in 400..499
              /\ \E k \in 1..Len(ev[r].detail) : ev[r].detail[k] = "invalid meter"
        /\ (/\ pc[r] = "failed"
            /\ calls[r][1].op = "verify"
            /\ calls[r][1].outcome = "code")
           => /\ result[r] \in 400..499
              /\ detail[r] = FailureDetail("Verification Error: Customer Verification Failed")

\* C17: when an attempt failed on a vendor or verification error, the text
\* of that error is the last entry, tagged Error, of the audit trail of the
\* failed transaction, after the entries the trail had before, and the
\* error detail returned to the caller contains the same text.
C17_CauseInTrailAndDetail ==
    \A r \in Slots :
        (/\ pc[r] \in {"refund", "create_refund", "failed"}
         /\ calls[r][Len(calls[r])].outcome \notin {"success", "token"})
        => LET last == calls[r][Len(calls[r])]
               cause ==
                   CASE last.op = "verify" /\ last.outcome = "code" ->
                            "Verification Error: Customer Verification Failed"
                     [] last.op = "verify" /\ last.outcome = "raise" ->
                            "Verification Error: timeout"
                     [] last.op = "purchase" /\ last.outcome = "raise" -> "timeout"
                     [] last.op = "purchase" /\ last.adapter = "ebills" -> "eBills Error"
                     [] OTHER -> "declined"
               meta_data == rows[loc[r].txid].meta_data
           IN  /\ rows[loc[r].txid].status = "failed"
               /\ meta_data = <<Entry("request", ""), Entry("Error", cause)>>
               /\ pc[r] = "failed" =>
                      /\ \E k \in 1..Len(detail[r]) : detail[r][k] = cause
                      /\ result[r] = 400

C17_Witness ==
    \E r, q \in Slots :
        /\ pc[r] = "failed"
        /\ detail[r] = <<"Transaction failed: ",
                         "Verification Error: Customer Verification Failed">>
        /\ pc[q] = "failed"
        /\ detail[q] = <<"Transaction failed: ", "timeout">>
        /\ rows[loc[q].txid].meta_data[2] = Entry("Error", "timeout")

\* C18: an attempt that returned success has queued exactly one success
\* notification and nothing else; an attempt that ended failed and refunded
\* has queued exactly one failure notification and then exactly one refund
\* notification, and no success notification; a request rejected by an
\* admission check has queued none.  At no point does a request hold
\* anything but a prefix of one of these.
C18_NotificationsPerAttempt ==
    \A r \in Slots :
        /\ pc[r] = "returned" => emails[r] = <<"purchase_success">>
        /\ pc[r] = "failed" => emails[r] = <<"purchase_failed", "refund">>
        /\ pc[r] = "rejected" => emails[r] = <<>>
        /\ emails[r] \in {<<>>, <<"purchase_success">>, <<"purchase_failed">>,
                          <<"purchase_failed", "refund">>}
        /\ emails[r] = <<"purchase_failed">> =>
               pc[r] \in {"refund", "create_refund", "aborted"}
        /\ (emails[r] # <<>> /\ emails[r][1] = "purchase_failed") =>
               rows[loc[r].txid].status = "failed"
        /\ emails[r] = <<"purchase_success">> =>
               rows[loc[r].txid].status = "success"

C18_Witness ==
    \E r, q \in Slots :
        /\ pc[r] = "returned" /\ emails[r] = <<"purchase_success">>
        /\ pc[q] = "failed" /\ emails[q] = <<"purchase_failed", "refund">>
        /\ Wallet(r) = Wallet(q)

C20_LedgerFailureDistinct ==
    [][\A r \in Slots :
          LET AtDebit == pc'[r] = "aborted" /\ trail'[r] = <<>>
              AtCredit == /\ pc'[r] = "aborted"
                          /\ trail'[r] = <<"debit", "create_transaction",
                                           "update_transaction">>
          IN  /\ (AtDebit \/ AtCredit) =>
                     /\ result'[r] = 500
                     /\ detail'[r] = <<"Internal Server Error">>
                     /\ \A q \in Slots :
                            pc'[q] \in {"rejected", "failed"} =>
                                /\ result'[q] \in {400, 404}
                                /\ result'[q] # result'[r]
                                /\ detail'[q] # detail'[r]
                     /\ AtDebit => (mine'[r] = {} /\ calls'[r] = <<>>)
                     /\ AtCredit => /\ rows'[loc'[r].txid].status = "failed"
                                    /\ RefundRowsOf(loc[r].txid) = {}
              /\ pc[r] = "aborted" =>
                     /\ pc'[r] = "aborted"
                     /\ trail'[r] = trail[r]
                     /\ calls'[r] = calls[r]
                     /\ mine'[r] = mine[r]
                     /\ result'[r] = result[r]
                     /\ ~interfered'[r] => balance'[Wallet(r)] = balance[Wallet(r)]
      ]_vars

C20_Witness ==
    \E r, q \in Slots :
        /\ pc[r] = "aborted" /\ result[r] = 500
        /\ trail[r] = <<"debit", "create_transaction", "update_transaction">>
        /\ pc[q] = "failed" /\ result[q] = 400
        /\ faults = 1

C24_PurchaseCalledOnce ==
    \A r \in Slots :
        LET purchases == {k \in 1..Len(calls[r]) : calls[r][k].op = "purchase"}
        IN  /\ Cardinality(purchases) <= 1
            /\ \A k \in purchases :
                   /\ k = Len(calls[r])
                   /\ (PurchaseRaises(calls[r][k].adapter, calls[r][k].outcome)
                          \/ ~ResponseAccepted(calls[r][k].adapter,
                                               calls[r][k].outcome)) =>
                          pc[r] \in {"mark_failed", "refund", "create_refund",
                                     "failed", "aborted"}

C24_Witness ==
    \E r, q \in Slots :
        /\ pc[r] = "failed" /\ pc[q] = "failed"
        /\ Intent(r).product = "data" /\ Intent(q).product = "electricity"
        /\ ~UsesEbills(q)
        /\ Len(calls[r]) = 1 /\ calls[r][1].outcome = "raise"
        /\ Len(calls[q]) = 1 /\ calls[q][1].outcome = "code"

\* C26: no step deletes a transaction row, and a step changes nothing of an
\* existing row but its status and its audit trail (meta_data): id, wallet,
\* user, amount, direction, reference, service type and profit stay as
\* created, and the audit trail a row held before the step is a prefix of
\* the one it holds after.
C26_RowsImmutableButStatusAndTrail ==
    [][/\ Len(rows') >= Len(rows)
       /\ \A i \in 1..Len(rows) :
              /\ rows'[i] = [rows[i] EXCEPT !.status = rows'[i].status,
                                            !.meta_data = rows'[i].meta_data]
              /\ Len(rows'[i].meta_data) >= Len(rows[i].meta_data)
              /\ SubSeq(rows'[i].meta_data, 1, Len(rows[i].meta_data))
                     = rows[i].meta_data]_vars

C26_Witness ==
    \E r, q \in Slots :
        /\ pc[r] = "returned" /\ pc[q] = "failed"
        /\ rows[loc[r].txid].status = "success"
        /\ Len(rows[loc[r].txid].meta_data) = 3
        /\ rows[loc[q].txid].status = "failed"
        /\ Len(rows[loc[q].txid].meta_data) = 3
        /\ rows[loc[q].txid].meta_data[3].tag = "Error"
        /\ Len(rows) = 3

\* What a finished attempt has cost the wallet if every balance change is
\* kept: its selling price when it succeeded, nothing otherwise.
Spent(r) == IF pc[r] = "returned" THEN loc[r].selling_price ELSE 0

\* C28: when two concurrent attempts on one wallet, which both arrived at the
\* same stored balance, have finished and no ledger write has raised, the
\* stored balance is that balance minus the selling prices of the attempts
\* that succeeded, however their steps interleaved.
C28_NoLostBalanceUpdate ==
    \A r, q \in Slots :
        (/\ r # q
         /\ InFlight(r) /\ InFlight(q)
         /\ Wallet(r) = Wallet(q)
         /\ ~WalletMissing(Wallet(r))
         /\ before[r] = before[q]
         /\ faults = 0
         /\ Ended(r) /\ Ended(q))
        => balance[Wallet(r)] = before[r] - Spent(r) - Spent(q)

\* C29: an attempt whose vendor purchase call returned successfully is never
\* refunded: its wallet is not credited, no refund row names its
\* transaction and its transaction is never failed, whatever goes wrong
\* after the call returned.
C29_RefundOnlyAfterVendorFailure ==
    \A r \in Slots :
        (\E k \in 1..Len(calls[r]) :
            /\ calls[r][k].op = "purchase"
            /\ ~PurchaseRaises(calls[r][k].adapter, calls[r][k].outcome)
            /\ ResponseAccepted(calls[r][k].adapter, calls[r][k].outcome))
        => /\ ~Committed(r, "credit")
           /\ RefundRowsOf(loc[r].txid) = {}
           /\ loc[r].status # "failed"
           /\ rows[loc[r].txid].status # "failed"

\* Range(f): the values a sequence holds.
Range(f) == {f[i] : i \in 1..Len(f)}

\* C25: every id generate_trans_id returns, for every prefix and every time
\* of the call, has exactly 15 characters: twelve decimal digits, which are
\* the two-digit year, month, day, hour, minute and second of the call,
\* followed by three characters of A-Z, 0-9.
C25_TransIdFormat ==
    tid.trans_id # <<>> =>
        LET t == tid.trans_id
            Value(i) == (CHOOSE d \in 0..9 : digits[d + 1] = t[i]) * 10
                        + (CHOOSE d \in 0..9 : digits[d + 1] = t[i + 1])
        IN  /\ Len(t) = 15
            /\ \A i \in 1..12 : t[i] \in Range(digits)
            /\ Value(1) = tid.now.year % 100
            /\ Value(3) = tid.now.month
            /\ Value(5) = tid.now.day
            /\ Value(7) = tid.now.hour
            /\ Value(9) = tid.now.minute
            /\ Value(11) = tid.now.second
            /\ \A i \in 13..15 : t[i] \in Range(ascii_uppercase) \cup Range(digits)

C25_Witness ==
    /\ tid.now.year = 2009 /\ tid.now.month = 10
    /\ tid.trans_id = <<"0", "9", "1", "0", "2", "0", "1", "0", "3", "0",
                        "4", "0", "Z", "0", "A">>

\* The worker thread of the caller is executing a browser-session
\* operation: it is inside the with block of the operation.
InOperation(c) == tv[c].pc \in {"attempt", "sequence"}

\* C22: at any time at most one thread is executing a browser-session
\* operation (get_sltv_user_details, purchase_tv, refresh_tv), and it is the
\* thread that holds the lock; this stays so after a session loss has reset
\* the singleton and a new VTUAutomator has been constructed.
C22_OneSessionOperationAtATime ==
    /\ Cardinality({c \in Callers : InOperation(c)}) <= 1
    /\ Cardinality(vtu.held) <= 1
    /\ \A c \in Callers : InOperation(c) <=> (\E h \in vtu.held : h.by = c)

\* A thread runs an operation on the second instance, made after a session
\* loss, while a thread that was given the first instance waits for the lock.
C22_Witness ==
    \E c, q \in Callers :
        /\ tv[c].pc = "sequence" /\ tv[c].self = 2
        /\ tv[q].pc = "queued" /\ tv[q].self = 1
        /\ vtu.made = 2 /\ vtu._instance = 2

\* C23: a call of a browser-session operation runs the login-and-act
\* sequence at most twice, and a second time only after a session failure.
\* When a session failure is detected on the first attempt the driver and
\* the singleton are dropped and the call goes to a second attempt, which
\* starts by rebuilding the driver: when the rebuild fails the call returns
\* False, otherwise the sequence is run once more and the call ends whatever
\* the outcome.  A call whose two attempts both met a session failure
\* returns False.
C23_RetryOnceOnSessionLoss ==
    [][\A c \in Callers :
          /\ tv'[c].runs <= 2 /\ tv'[c].attempt <= 2
          /\ tv'[c].runs = 2 => tv'[c].attempt >= 1
          /\ tv'[c].runs <= tv'[c].attempt + 1
          /\ (InOperation(c) /\ tv[c].attempt = 0 /\ tv'[c].attempt = 1) =>
                 /\ tv'[c].pc = "attempt"
                 /\ vtu'._driver = "none" /\ vtu'._instance = 0
          /\ (tv'[c].pc = "sequence" /\ tv'[c].attempt = 1) =>
                 vtu'._driver = "chrome"
          /\ (tv[c].pc = "sequence" /\ tv[c].attempt = 1 /\ tv'[c] # tv[c]) =>
                 /\ tv'[c].runs = tv[c].runs + 1
                 /\ tv'[c].pc = "done"
          /\ (tv[c].pc = "attempt" /\ tv[c].attempt = 1 /\ tv'[c] # tv[c]) =>
                 /\ tv'[c].pc \in {"sequence", "done"}
                 /\ tv'[c].pc = "done" => tv'[c].ret = "False"
          /\ (tv'[c].pc = "done" /\ tv'[c].attempt = 2) => tv'[c].ret = "False"]_vars

C23_Witness ==
    \E c, q \in Callers :
        /\ tv[c].pc = "done" /\ tv[c].attempt = 1 /\ tv[c].runs = 2
        /\ tv[c].ret = "value"
        /\ tv[q].pc = "returned" /\ tv[q].attempt = 2 /\ tv[q].runs = 2
        /\ tv[q].ret = "False"

\* C27: no step of a TV purchase, from the construction of the automator to
\* the answer of the handler, on success, on failure and when the automator
\* raises, changes a wallet balance or the transaction rows.
C27_TvPurchaseLeavesLedger ==
    [][(\E c \in Callers :
           /\ tv'[c] # tv[c]
           /\ tv'[c].op = "purchase_tv")
       => (balance' = balance /\ rows' = rows)]_vars

C27_Witness ==
    \E c, q \in Callers :
        /\ tv[c].op = "purchase_tv" /\ tv[c].pc = "returned"
        /\ tv[c].ret = "value" /\ tv[c].status_code = 200
        /\ tv[q].op = "purchase_tv" /\ tv[q].pc = "returned"
        /\ tv[q].ret = "False" /\ tv[q].status_code = 500
        /\ balance = [w \in Wallets |-> 100] /\ rows = <<>>

\* C30: within one call of purchase_tv the recharge is submitted (recharge
\* button clicked, popup accepted) at most once.
C30_RechargeSubmittedOnce ==
    \A c \in Callers : tv[c].submitted <= 1

\* C31: a run of the login-and-act sequence that meets a failure which is
\* not a crashed or invalid session (an element-wait timeout, a missing
\* iframe or another exception) ends the call with failure: the driver and
\* the singleton are not dropped and no further attempt is started.
C31_OrdinaryFailureNotRetried ==
    [][\A c \in Callers :
          (tv[c].pc = "sequence" /\ tv[c].fail = "none"
              /\ tv'[c].fail # "none") =>
              /\ tv'[c].pc = "done"
              /\ tv'[c].ret = "False"
              /\ tv'[c].attempt = tv[c].attempt
              /\ vtu'._driver = vtu._driver
              /\ vtu'._instance = vtu._instance]_vars

\* C32: under fair scheduling every construction of VTUAutomator gets
\* through, every caller that waits for the lock gets it, and every call of
\* an operation ends and has released the lock, whichever way it ends; so
\* every TV request is answered.
C32_OperationsTerminate ==
    \A c \in Pair :
        /\ <>(tv[c].pc # "idle")
        /\ (tv[c].pc = "queued") ~> InOperation(c)
        /\ InOperation(c) ~>
               (tv[c].pc = "done" /\ \A h \in vtu.held : h.by # c)
        /\ <>[](tv[c].pc \in {"returned", "raised"})

\* A call has ended with False after a session loss on its first attempt
\* and a failed rebuild on its second; the lock is free for the
\* construction of VTUAutomator that the other request is about to make.
C32_Witness ==
    \E c, q \in Pair :
        /\ tv[c].pc = "done" /\ tv[c].attempt = 1 /\ tv[c].runs = 1
        /\ tv[c].ret = "False" /\ tv[c].fail = "none"
        /\ tv[q].pc = "idle"
        /\ vtu._instance = 0 /\ vtu._driver = "none"
        /\ vtu.held = {}

\* C33: while a thread is inside a browser-session operation, no other
\* thread creates, replaces or clears the driver reference: a step that
\* changes it is a step of the thread inside the operation, which holds the
\* lock.
C33_DriverChangedUnderLock ==
    [][\A c \in Callers :
          (InOperation(c) /\ vtu'._driver # vtu._driver) =>
              tv'[c] # tv[c]]_vars

\* C34: a TV purchase or TV refresh whose operation returned no message
\* (False) is answered with status 400; status 500 is answered only when
\* the automator raised.
C34_TvFailureIsClientError ==
    \A c \in Callers :
        (tv[c].op \in {"purchase_tv", "refresh_tv"} /\ tv[c].pc = "returned") =>
            /\ tv[c].ret = "False" => tv[c].status_code = 400
            /\ tv[c].status_code = 500 => tv[c].ret \notin {"False", "value"}

\* C35: a request whose selling price equals the wallet balance it read is
\* not rejected for insufficient funds, and when it ends in success, with no
\* other request writing the same wallet meanwhile, the stored balance is
\* exactly 0.
C35_ExactBalanceAdmitted ==
    \A r \in Slots :
        (/\ InFlight(r) /\ pc[r] # "get_wallet"
         /\ Wallet(r) \in Wallets
         /\ seen[r] = loc[r].selling_price)
        => /\ pc[r] # "rejected"
           /\ (pc[r] = "returned" /\ ~interfered[r]) => balance[Wallet(r)] = 0

C35_Witness ==
    \E r \in Slots :
        /\ pc[r] = "returned" /\ ~interfered[r]
        /\ seen[r] = 100 /\ loc[r].selling_price = 100
        /\ before[r] = 100
        /\ balance[Wallet(r)] = 0

\* C36: two electricity requests of the same amount that name the canonical
\* vendor under any of its aliases, in any letter case, are priced under the
\* same pricing table at the same selling price.
C36_AliasesPricedAlike ==
    \A r, q \in Slots :
        (/\ InFlight(r) /\ InFlight(q)
         /\ Intent(r).product = "electricity" /\ Intent(q).product = "electricity"
         /\ Intent(r).provider \in CanonicalAliases
         /\ Intent(q).provider \in CanonicalAliases
         /\ Intent(r).amount = Intent(q).amount)
        => loc[r].selling_price = loc[q].selling_price

\* C37: the id generate_trans_id returns differs from the id its previous
\* call returned: the refund id differs from the id of the debit it
\* compensates, and the ids of two purchase attempts started within the same
\* second differ.
C37_ConsecutiveTransIdsDiffer ==
    tid.previous # <<>> => tid.trans_id # tid.previous

\* C38: every /forgot-password request is answered with the same status and
\* the same message, whether or not a user with its email exists; the one
\* difference is that a password-reset email is queued, once, exactly when
\* the user exists.
C38_ForgotPasswordSameResponse ==
    \A email, other \in Emails :
        (fp[email].pc = "returned" /\ fp[other].pc = "returned") =>
            /\ fp[email].response = fp[other].response
            /\ fp[email].response.status_code = 200
            /\ fp[email].background_tasks =
                   IF GetByEmail(email) = NoUser THEN <<>>
                   ELSE <<"password_reset">>

C38_Witness ==
    /\ fp["alice@example.com"].pc = "returned"
    /\ fp["alice@example.com"].background_tasks = <<"password_reset">>
    /\ fp["nobody@example.com"].pc = "returned"
    /\ fp["nobody@example.com"].background_tasks = <<>>
    /\ fp["alice@example.com"].response = fp["nobody@example.com"].response
    /\ fp["bob@example.com"].pc = "idle"

====
